---------------------------- MODULE Spec2Model ----------------------------
(***************************************************************************)
(* A model of the FlowMattic remote-mcp bridge (src/src/bridge.ts): a      *)
(* stdio MCP server whose six request handlers relay each request as one   *)
(* HTTP JSON-RPC call to a remote endpoint and shape the answer.           *)
(*                                                                         *)
(* JavaScript values are tagged records.  An object is the sequence of its *)
(* <<key, value>> members in insertion order, which is the order           *)
(* JSON.stringify writes them in.  Texts (bodies, messages) are strings.   *)
(*                                                                         *)
(* Modelling assumptions: the endpoint argument parses as a URL; the HTTP  *)
(* primitive signals a call with 'end' (complete response), 'error' or     *)
(* 'timeout', as registered in makeHttpRequest, each at most once for a    *)
(* call and in any order; a request for a method without a handler never   *)
(* reaches this code (the SDK answers it).                                 *)
(***************************************************************************)
EXTENDS Integers, Sequences, FiniteSets, TLC

VARIABLES
    scenario,   \* the environment the run is checked in (see Scenarios)
    hasArg,     \* process.argv.length >= 3
    phase,      \* "main", "probing", "serving", "exited"
    exitCode,   \* the codes given to process.exit: empty while running
    exitCause,  \* which process.exit call ended the process
    probe,      \* the startup initialize call of start()
    initSent,   \* how many initialize requests were written to the wire
    slots,      \* the dispatches of incoming requests, one per slot
    failed      \* history: dispatches that ended in a remote failure so far

vars ==
    <<scenario, hasArg, phase, exitCode, exitCause, probe, initSent, slots, failed>>

(***************************************************************************)
(* Bounds and program constants.                                           *)
(***************************************************************************)
MaxInFlight == 2          \* incoming requests the client keeps in flight
MaxInit == 2              \* cap of the initSent counter
MaxFailed == 2            \* cap of the failed counter
IdLimit == 1000000        \* Math.random() * 1000000
ProbeId == 1              \* id: 1 of the initialize request

(***************************************************************************)
(* JavaScript / JSON values.                                               *)
(***************************************************************************)
JUndef == [t |-> "undefined"]
JNull == [t |-> "null"]
JBool(b) == [t |-> "bool", v |-> b]
JNum(n) == [t |-> "num", v |-> n]
JStr(s) == [t |-> "str", v |-> s]
JArr(a) == [t |-> "arr", v |-> a]
JObj(members) == [t |-> "obj", v |-> members]

\* JavaScript's ToBoolean, the test behind `x || d` and `if (x)`.
Truthy(x) ==
    CASE x.t = "undefined" -> FALSE
      [] x.t = "null" -> FALSE
      [] x.t = "bool" -> x.v
      [] x.t = "num" -> x.v # 0
      [] x.t = "str" -> x.v # ""
      [] OTHER -> TRUE

\* `x || d`
OrElse(x, d) == IF Truthy(x) THEN x ELSE d

HasKey(o, k) == o.t = "obj" /\ \E n \in 1..Len(o.v) : o.v[n][1] = k

\* Property access o.k on a value that is neither null nor undefined: the
\* member of an object, undefined on anything else the model holds.
Get(o, k) ==
    IF HasKey(o, k)
    THEN o.v[CHOOSE n \in 1..Len(o.v) : o.v[n][1] = k][2]
    ELSE JUndef

\* Optional chaining o?.k
GetOpt(o, k) == IF o.t \in {"undefined", "null"} THEN JUndef ELSE Get(o, k)

RECURSIVE Stringify(_)
RECURSIVE StringifyItems(_, _)
RECURSIVE StringifyMembers(_, _)
\* JSON.stringify of a JSON value.
Stringify(x) ==
    CASE x.t = "null" -> "null"
      [] x.t = "bool" -> IF x.v THEN "true" ELSE "false"
      [] x.t = "num" -> ToString(x.v)
      [] x.t = "str" -> "\"" \o x.v \o "\""
      [] x.t = "arr" -> "[" \o StringifyItems(x.v, 1) \o "]"
      [] x.t = "obj" -> "{" \o StringifyMembers(x.v, 1) \o "}"

StringifyItems(a, n) ==
    IF n > Len(a) THEN ""
    ELSE Stringify(a[n]) \o (IF n < Len(a) THEN "," ELSE "")
         \o StringifyItems(a, n + 1)

StringifyMembers(ms, n) ==
    IF n > Len(ms) THEN ""
    ELSE "\"" \o ms[n][1] \o "\":" \o Stringify(ms[n][2])
         \o (IF n < Len(ms) THEN "," ELSE "") \o StringifyMembers(ms, n + 1)


(***************************************************************************)
(* The six supported methods and what the remote endpoint may answer.      *)
(***************************************************************************)
Methods ==
    {"tools/list", "tools/call", "resources/list", "resources/read",
     "prompts/list", "prompts/get"}

ToolMethods == {"tools/list", "tools/call"}

ArrEmpty == JArr(<<>>)
ArrOne == JArr(<< JObj(<< <<"name", JStr("echo")>> >>) >>)

\* What a member of a result may hold: arrays, strings, and JSON's falsy values.
FieldValues ==
    {ArrEmpty, ArrOne, JStr("d"), JStr(""), JNull, JBool(FALSE), JNum(0)}

\* The member of the result that the method's handler reads.
ResultKey(m) ==
    CASE m = "tools/list" -> "tools"
      [] m = "tools/call" -> "content"
      [] m = "resources/list" -> "resources"
      [] m = "resources/read" -> "contents"
      [] m = "prompts/list" -> "prompts"
      [] m = "prompts/get" -> "messages"

\* A result with the method's member populated as a well-behaved remote does.
PopulatedResult(m) ==
    IF m = "prompts/get"
    THEN JObj(<< <<"description", JStr("d")>>, <<"messages", ArrOne>> >>)
    ELSE JObj(<< <<ResultKey(m), ArrOne>> >>)

Results(m) ==
    {JUndef, JNull, JObj(<<>>)}
    \cup {JObj(<< <<ResultKey(m), x>> >>) : x \in FieldValues}
    \cup (IF m = "prompts/get"
          THEN {JObj(<< <<"description", d>>, <<"messages", ms>> >>) :
                    d \in {JStr("d"), JStr(""), JNull},
                    ms \in {ArrOne, ArrEmpty, JNull}}
               \cup {JObj(<< <<"description", d>> >>) :
                        d \in {JStr("d"), JStr(""), JNum(0)}}
          ELSE {})
    \cup (IF m = "tools/call"
          THEN {JObj(<< <<"isError", JBool(TRUE)>> >>),
                JObj(<< <<"content", JNull>>, <<"value", JNum(7)>> >>),
                JNum(0)}
          ELSE {})

ErrObject ==
    JObj(<< <<"code", JNum(-32601)>>, <<"message", JStr("no such tool")>> >>)
ErrNoMessage == JObj(<< <<"code", JNum(-32000)>> >>)

\* The error member of a response: absent, an error object, or null.
Errors == {JUndef, ErrObject, ErrNoMessage, JNull}

\* The JSON-RPC response object with the given result and error members.
Envelope(r, e) ==
    JObj((IF r = JUndef THEN <<>> ELSE << <<"result", r>> >>)
         \o (IF e = JUndef THEN <<>> ELSE << <<"error", e>> >>))

\* JSON documents that are not objects.
NonObjects == {JNull, JNum(5)}

JsonBodies(m) == {Envelope(r, e) : r \in Results(m), e \in Errors} \cup NonObjects

\* Every JSON document the model's remote can send.
ParseTable == UNION {JsonBodies(m) : m \in Methods}

JsonTexts == [x \in ParseTable |-> Stringify(x)]

\* Bodies that are not JSON.
Garbage == {"", "<html>Bad Gateway</html>"}

\* JSON.parse: the document whose text the body is; it throws on any other.
JsonOf ==
    [raw \in {JsonTexts[x] : x \in ParseTable} |->
        CHOOSE x \in ParseTable : JsonTexts[x] = raw]
Parses(raw) == raw \in DOMAIN JsonOf
JSONParse(raw) == JsonOf[raw]

(***************************************************************************)
(* What the HTTP primitive signals for one call.                           *)
(***************************************************************************)
NoStim == [kind |-> "none", status |-> 0, raw |-> "", msg |-> ""]
EndOf(status, raw) == [kind |-> "end", status |-> status, raw |-> raw, msg |-> ""]
ErrorOf(msg) == [kind |-> "error", status |-> 0, raw |-> "", msg |-> msg]
TimeoutStim == [kind |-> "timeout", status |-> 0, raw |-> "", msg |-> ""]

Scenarios == {"concurrent", "sequential", "racing"}

\* The two environments the model is checked in.  "concurrent": a client
\* that keeps up to MaxInFlight requests in flight, each answered by a
\* timeout, a transport error, a populated result or an error object.
\* "sequential": a client that sends one request at a time, with either of
\* two ids and params, against a remote that answers with every status of
\* BoundaryStatuses and every body of JsonBodies and Garbage, and a probe
\* that meets every kind of failure.  "racing": a client that sends one
\* request at a time against a remote whose calls are signalled more than
\* once (timeout, transport error and completed response in every order),
\* with the failures of the session counted.
InFlightLimit == IF scenario = "concurrent" THEN MaxInFlight ELSE 1

OkBodies(sc, m) ==
    IF sc = "sequential"
    THEN {JsonTexts[x] : x \in JsonBodies(m)} \cup Garbage
    ELSE {JsonTexts[Envelope(PopulatedResult(m), JUndef)],
          JsonTexts[Envelope(JUndef, ErrObject)]}

BoundaryStatuses(sc) ==
    CASE sc = "concurrent" -> {}
      [] sc = "sequential" -> {199, 299, 300, 500}
      [] sc = "racing" -> {500}

StimuliTable ==
    [sc \in Scenarios |-> [m \in Methods |->
        {ErrorOf("connect ECONNREFUSED"), TimeoutStim}
        \cup {EndOf(200, raw) : raw \in OkBodies(sc, m)}
        \cup {EndOf(st, raw) : st \in BoundaryStatuses(sc),
                  raw \in {"<html>Bad Gateway</html>",
                           JsonTexts[Envelope(PopulatedResult(m), JUndef)]}}]]

\* The signals the HTTP primitive may give a call of method m.
Stimuli(m) == StimuliTable[scenario][m]

(***************************************************************************)
(* makeHttpRequest: how its promise settles on each signal.                *)
(***************************************************************************)
Resolved(x) == [ok |-> TRUE, value |-> x, message |-> ""]
Rejected(msg) == [ok |-> FALSE, value |-> JUndef, message |-> msg]
Unsettled == [ok |-> FALSE, value |-> JUndef, message |-> "(pending)"]

\* Mutant: the body is parsed whatever the status.
OnEndAnyStatus(status, raw) ==
    IF Parses(raw)
    THEN Resolved(JSONParse(raw))
    ELSE Rejected("Invalid JSON response: " \o raw)

\* res.on('end'): a 2xx status resolves with the parsed body, a body that
\* does not parse rejects from the catch, any other status rejects.
OnEnd(status, raw) ==
    IF status # 0 /\ status >= 200 /\ status < 300
    THEN IF Parses(raw)
         THEN Resolved(JSONParse(raw))
         ELSE Rejected("Invalid JSON response: " \o raw)
    ELSE Rejected("HTTP " \o ToString(status) \o ": " \o raw)

\* req.on('error')
OnError(msg) == Rejected(msg)

\* Mutant: the timeout callback destroys the request and rejects nothing.
OnTimeoutSilent == Unsettled

\* req.on('timeout')
OnTimeout == Rejected("Request timeout")

\* The settlement a signal gives to a pending promise.
Settle(stim) ==
    CASE stim.kind = "end" -> OnEnd(stim.status, stim.raw)
      [] stim.kind = "error" -> OnError(stim.msg)
      [] stim.kind = "timeout" -> OnTimeout

\* Mutant: a promise that takes the settlement of the latest signal.
SettleLastWins(before, stim) == Settle(stim)

\* resolve and reject on the promise of one call: the first of them settles
\* it, and on a settled promise they do nothing.
SettleOnce(before, stim) == IF before = Unsettled THEN Settle(stim) ELSE before

\* Mutant: the handler is run again on every signal of a settled call.
ResumesOnEverySignal(before, after) == after # Unsettled

\* `await this.makeHttpRequest(...)`: the handler goes on when its promise
\* goes from pending to settled, which happens once.
Resumes(before, after) == before = Unsettled /\ after # Unsettled

\* req.destroy(), called by the timeout callback only.
Destroys(stim) == stim.kind = "timeout"

(***************************************************************************)
(* The request handlers of setupHandlers.  The body of a handler's try     *)
(* block either returns a value or throws a message; the catch block       *)
(* turns a thrown message into the handler's outcome.                      *)
(***************************************************************************)
Returned(x) == [thrown |-> FALSE, value |-> x, message |-> ""]
Thrown(msg) == [thrown |-> TRUE, value |-> JUndef, message |-> msg]

Reply(x) == [kind |-> "reply", value |-> x, message |-> ""]
Failure(msg) == [kind |-> "failure", value |-> JUndef, message |-> msg]
NoOutcome == [kind |-> "none", value |-> JUndef, message |-> ""]

\* The TypeError of reading member k of null.
NullRead(k) == "Cannot read properties of null (reading '" \o k \o "')"

\* new Error(error.message).message
ErrorMessage(e) ==
    LET msg == Get(e, "message")
    IN  CASE msg.t = "undefined" -> ""
          [] msg.t = "str" -> msg.v
          [] OTHER -> Stringify(msg)

\* Mutant: the error member of the response is not looked at.
ErrorCheckSkipped(pr) ==
    IF ~pr.ok THEN Thrown(pr.message)
    ELSE IF pr.value.t = "null" THEN Thrown(NullRead("error"))
    ELSE Returned(pr.value)

\* `if (response.error) throw new Error(response.error.message)`, after the
\* await: the response, or what was thrown.
ErrorCheck(pr) ==
    IF ~pr.ok THEN Thrown(pr.message)
    ELSE IF pr.value.t = "null" THEN Thrown(NullRead("error"))
    ELSE IF Truthy(Get(pr.value, "error"))
         THEN Thrown(ErrorMessage(Get(pr.value, "error")))
         ELSE Returned(pr.value)

\* The await of the handlers that make no error check.
NoErrorCheck(pr) ==
    IF ~pr.ok THEN Thrown(pr.message)
    ELSE IF pr.value.t = "null" THEN Thrown(NullRead("result"))
    ELSE Returned(pr.value)

\* Mutant: response.result?.k ?? d, the default only for null and undefined.
ResultFieldNullish(response, k, d) ==
    IF GetOpt(Get(response, "result"), k).t \in {"undefined", "null"}
    THEN d
    ELSE GetOpt(Get(response, "result"), k)

\* response.result?.k || d
ResultField(response, k, d) == OrElse(GetOpt(Get(response, "result"), k), d)

TextItem(text) == JObj(<< <<"type", JStr("text")>>, <<"text", JStr(text)>> >>)

ToolsListTry(pr) ==
    LET r == ErrorCheck(pr)
    IN  IF r.thrown THEN r
        ELSE Returned(JObj(<< <<"tools", ResultField(r.value, "tools", ArrEmpty)>> >>))

ToolsList(pr) ==
    LET r == ToolsListTry(pr)
    IN  IF r.thrown THEN Failure("Failed to get tools: " \o r.message)
        ELSE Reply(r.value)

ToolsCallTry(pr) ==
    LET r == ErrorCheck(pr)
    IN  IF r.thrown THEN r
        ELSE Returned(JObj(<< <<"content",
                 ResultField(r.value, "content",
                     JArr(<< TextItem(Stringify(
                         OrElse(Get(r.value, "result"), JObj(<<>>)))) >>))>> >>))

\* Mutant: the catch block answers with an empty content instead of throwing.
ToolsCallSwallows(pr) ==
    LET r == ToolsCallTry(pr)
    IN  IF r.thrown THEN Reply(JObj(<< <<"content", ArrEmpty>> >>))
        ELSE Reply(r.value)

ToolsCall(pr) ==
    LET r == ToolsCallTry(pr)
    IN  IF r.thrown THEN Failure("Tool execution failed: " \o r.message)
        ELSE Reply(r.value)

ResourcesList(pr) ==
    LET r == NoErrorCheck(pr)
    IN  IF r.thrown THEN Reply(JObj(<< <<"resources", ArrEmpty>> >>))
        ELSE Reply(JObj(<< <<"resources",
                 ResultField(r.value, "resources", ArrEmpty)>> >>))

ResourcesRead(pr) ==
    LET r == NoErrorCheck(pr)
    IN  IF r.thrown THEN Reply(JObj(<< <<"contents", ArrEmpty>> >>))
        ELSE Reply(JObj(<< <<"contents",
                 ResultField(r.value, "contents", ArrEmpty)>> >>))

PromptsList(pr) ==
    LET r == NoErrorCheck(pr)
    IN  IF r.thrown THEN Reply(JObj(<< <<"prompts", ArrEmpty>> >>))
        ELSE Reply(JObj(<< <<"prompts",
                 ResultField(r.value, "prompts", ArrEmpty)>> >>))

PromptsGet(pr) ==
    LET r == NoErrorCheck(pr)
    IN  IF r.thrown
        THEN Reply(JObj(<< <<"description", JStr("")>>, <<"messages", ArrEmpty>> >>))
        ELSE Reply(JObj(<< <<"description",
                              ResultField(r.value, "description", JStr(""))>>,
                           <<"messages",
                              ResultField(r.value, "messages", ArrEmpty)>> >>))

\* Mutant: handlers that give up when other dispatches are in flight.
ContinueShedding(m, pr) ==
    IF Cardinality({i \in DOMAIN slots : slots[i].st = "pending"}) > 1
    THEN Failure("Server busy")
    ELSE CASE m = "tools/list" -> ToolsList(pr)
           [] m = "tools/call" -> ToolsCall(pr)
           [] m = "resources/list" -> ResourcesList(pr)
           [] m = "resources/read" -> ResourcesRead(pr)
           [] m = "prompts/list" -> PromptsList(pr)
           [] m = "prompts/get" -> PromptsGet(pr)

\* The handler registered for method m, from its await on.
Continue(m, pr) ==
    CASE m = "tools/list" -> ToolsList(pr)
      [] m = "tools/call" -> ToolsCall(pr)
      [] m = "resources/list" -> ResourcesList(pr)
      [] m = "resources/read" -> ResourcesRead(pr)
      [] m = "prompts/list" -> PromptsList(pr)
      [] m = "prompts/get" -> PromptsGet(pr)


(***************************************************************************)
(* Outgoing requests.                                                      *)
(***************************************************************************)
NoRequest == [method |-> "", params |-> JUndef, id |-> -1]

\* Math.random() as a fraction <<numerator, denominator>> in [0, 1).
RandomSamples ==
    {<<0, 1>>, <<1, 1000000>>}
    \cup (IF scenario = "sequential" THEN {<<999999, 1000000>>} ELSE {})

\* Mutant: ids made one-based, Math.floor(Math.random() * 1000000) + 1.
generateIdOneBased(r) ==
    LET step == r[1] * 1000
    IN  (step \div r[2]) * (IdLimit \div 1000)
        + ((step % r[2]) * (IdLimit \div 1000)) \div r[2] + 1

\* Math.floor(Math.random() * 1000000), the product taken in two steps of
\* a factor 1000 each so that no intermediate value leaves 32 bits.
generateId(r) ==
    LET step == r[1] * 1000
    IN  (step \div r[2]) * (IdLimit \div 1000)
        + ((step % r[2]) * (IdLimit \div 1000)) \div r[2]

\* Mutant: every handler forwards the params of its request.
BuildRequestForwardsAll(request, id) ==
    [method |-> request.method, params |-> request.params, id |-> id]

\* The request each handler hands to makeHttpRequest.
BuildRequest(request, id) ==
    CASE request.method = "tools/list" ->
            [method |-> "tools/list", params |-> JObj(<<>>), id |-> id]
      [] request.method = "tools/call" ->
            [method |-> "tools/call", params |-> request.params, id |-> id]
      [] request.method = "resources/list" ->
            [method |-> "resources/list", params |-> JObj(<<>>), id |-> id]
      [] request.method = "resources/read" ->
            [method |-> "resources/read", params |-> request.params, id |-> id]
      [] request.method = "prompts/list" ->
            [method |-> "prompts/list", params |-> JObj(<<>>), id |-> id]
      [] request.method = "prompts/get" ->
            [method |-> "prompts/get", params |-> request.params, id |-> id]

\* Mutant: the probe draws its id like every other request.
ProbeRequestRandomId ==
    [method |-> "initialize",
     params |-> JObj(<< <<"protocolVersion", JStr("2024-11-05")>>,
                        <<"capabilities", JObj(<<>>)>>,
                        <<"clientInfo",
                          JObj(<< <<"name", JStr("FlowMattic MCP Remote")>>,
                                  <<"version", JStr("1.0.0")>> >>)>> >>),
     id |-> generateId(<<1, 2>>)]

\* The initialize request of start().
ProbeRequest ==
    [method |-> "initialize",
     params |-> JObj(<< <<"protocolVersion", JStr("2024-11-05")>>,
                        <<"capabilities", JObj(<<>>)>>,
                        <<"clientInfo",
                          JObj(<< <<"name", JStr("FlowMattic MCP Remote")>>,
                                  <<"version", JStr("1.0.0")>> >>)>> >>),
     id |-> ProbeId]

(***************************************************************************)
(* The local client and the state of the bridge.                           *)
(***************************************************************************)
Slots == 1..MaxInFlight

ParamsA == JObj(<< <<"name", JStr("echo")>> >>)
ParamsB == JObj(<< <<"name", JStr("add")>>, <<"cursor", JStr("c1")>> >>)

IncomingParams == IF scenario = "sequential" THEN {ParamsA, ParamsB} ELSE {ParamsA}
IncomingIds == IF scenario = "sequential" THEN {0, 1} ELSE {1}

\* The decoded requests the local transport may hand to a handler.
Requests ==
    {[method |-> m, params |-> p, id |-> n] :
        m \in Methods, p \in IncomingParams, n \in IncomingIds}

\* One dispatch: the incoming request, the request of its HTTP call and how
\* many calls it made, the first signal of the call and those after it, the
\* promise of the call, whether the request was destroyed, the outcome of
\* the handler and how many outcomes it produced.
\* The requests the client sends as dispatch i.  The client of the
\* concurrent scenario numbers its requests: the dispatches in flight
\* together carry different ids and params.
RequestsOf(i) ==
    IF scenario = "concurrent"
    THEN {[method |-> m, params |-> IF i = 1 THEN ParamsA ELSE ParamsB, id |-> i] :
             m \in Methods}
    ELSE Requests

IdleSlot ==
    [st |-> "idle", request |-> NoRequest, outgoing |-> NoRequest,
     calls |-> 0, stim |-> NoStim, late |-> <<>>, result |-> Unsettled,
     destroyed |-> FALSE, outcome |-> NoOutcome, answers |-> 0]

NoProbe ==
    [st |-> "none", outgoing |-> NoRequest, stim |-> NoStim,
     result |-> Unsettled, conn |-> "none"]

ProbeStimuli ==
    {EndOf(200, JsonTexts[Envelope(JObj(<<>>), JUndef)])}
    \cup (IF scenario = "sequential"
          THEN {TimeoutStim,
                ErrorOf("connect ECONNREFUSED"),
                EndOf(500, "<html>Bad Gateway</html>"),
                EndOf(200, "<html>Bad Gateway</html>")}
          ELSE {})
    \cup (IF scenario = "racing" THEN {TimeoutStim} ELSE {})

\* What `await this.server.connect(transport)` may do.
ConnectOutcomes == {"connected", "throws"}

InitWith(sc) ==
    /\ scenario = sc
    /\ hasArg \in BOOLEAN
    /\ phase = "main"
    /\ exitCode = {}
    /\ exitCause = "none"
    /\ probe = NoProbe
    /\ initSent = 0
    /\ slots = [i \in Slots |-> IdleSlot]
    /\ failed = 0

Init == InitWith("concurrent")
InitSequential == InitWith("sequential")
InitRacing == InitWith("racing")

\* process.exit(code): the process and all it held are gone.
Exit(code, cause) ==
    /\ phase' = "exited"
    /\ exitCode' = {code}
    /\ exitCause' = cause
    /\ slots' = [i \in Slots |-> IdleSlot]

(***************************************************************************)
(* Startup: main() and start().                                            *)
(***************************************************************************)
\* main() up to the first await of start(): the usage exit, or the bridge
\* is constructed and the initialize probe is sent.
Main ==
    /\ phase = "main"
    /\ IF ~hasArg
       THEN /\ Exit(1, "usage")
            /\ UNCHANGED <<probe, initSent>>
       ELSE /\ phase' = "probing"
            /\ probe' = [NoProbe EXCEPT !.st = "pending", !.outgoing = ProbeRequest]
            /\ initSent' = IF initSent < MaxInit THEN initSent + 1 ELSE initSent
            /\ UNCHANGED <<exitCode, exitCause, slots>>
    /\ UNCHANGED <<scenario, hasArg, failed>>

\* Mutant: the probe is a gate, a rejected probe leaves start().
ProbeGate(pr) == pr.ok

\* The inner try/catch of start(): whether start() goes on to connect the
\* local transport once the probe's promise has settled with pr.
ProbeAbsorbed(pr) == TRUE

\* The probe settles; start() logs the outcome and connects the local
\* transport.  An exception of connect leaves start() and ends main().
ProbeSettles(stim, conn) ==
    /\ phase = "probing"
    /\ probe.st = "pending"
    /\ LET pr == Settle(stim)
       IN  IF ProbeAbsorbed(pr)
           THEN /\ probe' = [probe EXCEPT !.st = "settled", !.stim = stim,
                                          !.result = pr, !.conn = conn]
                /\ IF conn = "connected"
                   THEN /\ phase' = "serving"
                        /\ UNCHANGED <<exitCode, exitCause, slots>>
                   ELSE Exit(1, "fatal")
           ELSE /\ probe' = [probe EXCEPT !.st = "settled", !.stim = stim,
                                          !.result = pr]
                /\ Exit(1, "fatal")
    /\ UNCHANGED <<scenario, hasArg, initSent, failed>>

(***************************************************************************)
(* Serving: one dispatch per incoming request.                             *)
(***************************************************************************)
InFlight == {i \in Slots : slots[i].st = "pending"}

\* Mutant: a request waits until no other dispatch is in flight.
CanDispatchSerialized(i) ==
    /\ phase = "serving"
    /\ i <= InFlightLimit
    /\ slots[i].st = "idle"
    /\ \A j \in 1..(i - 1) : slots[j].st # "idle"
    /\ InFlight = {}

\* Mutant: the local transport is connected before the probe is awaited.
CanDispatchWhileProbing(i) ==
    /\ phase \in {"probing", "serving"}
    /\ i <= InFlightLimit
    /\ slots[i].st = "idle"
    /\ \A j \in 1..(i - 1) : slots[j].st # "idle"

\* Mutant: a bridge that stops dispatching once a dispatch met a remote
\* failure.
CanDispatchUntilFailure(i) ==
    /\ phase = "serving"
    /\ failed = 0
    /\ i <= InFlightLimit
    /\ slots[i].st = "idle"
    /\ \A j \in 1..(i - 1) : slots[j].st # "idle"

\* A handler runs as soon as its request is decoded: the bridge holds no
\* queue and no lock.  (A slot is the model's name for one dispatch; the
\* client of the scenario keeps at most InFlightLimit of them in flight.)
CanDispatch(i) ==
    /\ phase = "serving"
    /\ i <= InFlightLimit
    /\ slots[i].st = "idle"
    /\ \A j \in 1..(i - 1) : slots[j].st # "idle"

\* Mutant: a generator that skips the ids of the probe and of the calls in
\* flight.
HandleRequestFreshIds(i, request, r) ==
    /\ CanDispatch(i)
    /\ generateId(r) # ProbeId
    /\ \A j \in Slots : slots[j].st = "idle" \/ slots[j].outgoing.id # generateId(r)
    /\ slots' = [slots EXCEPT ![i] =
                    [IdleSlot EXCEPT !.st = "pending", !.request = request,
                        !.outgoing = BuildRequest(request, generateId(r)),
                        !.calls = 1]]
    /\ UNCHANGED <<scenario, hasArg, phase, exitCode, exitCause, probe, initSent,
                   failed>>

\* A handler up to its await: it draws an id and issues its own HTTP call.
HandleRequest(i, request, r) ==
    /\ CanDispatch(i)
    /\ slots' = [slots EXCEPT ![i] =
                    [IdleSlot EXCEPT !.st = "pending", !.request = request,
                        !.outgoing = BuildRequest(request, generateId(r)),
                        !.calls = 1]]
    /\ UNCHANGED <<scenario, hasArg, phase, exitCode, exitCause, probe, initSent,
                   failed>>

\* Mutant: the response is correlated by the id of the request, as through
\* a table of pending calls shared by the dispatches.
ReceiverById(i) ==
    CHOOSE j \in Slots :
        slots[j].st = "pending" /\ slots[j].outgoing.id = slots[i].outgoing.id

\* The dispatch whose promise the callbacks of HTTP call i settle: the one
\* that made the call, since resolve and reject are those of its closure.
Receiver(i) == i

\* History: the settlement is a remote failure, thrown or handed over as
\* an error member.
RemoteFailed(pr) ==
    /\ pr # Unsettled
    /\ \/ ~pr.ok
       \/ pr.value.t = "null"
       \/ Truthy(Get(pr.value, "error"))

\* The failures the history counts in the scenario.
FailedCap == IF scenario = "racing" THEN MaxFailed ELSE 0

\* Mutant: a handler whose call was rejected makes the call a second time.
CompleteRetrying(i, stim) ==
    /\ phase = "serving"
    /\ slots[i].st = "pending"
    /\ slots[i].stim = NoStim
    /\ LET j == Receiver(i)
           after == SettleOnce(slots[j].result, stim)
       IN  /\ slots' =
                 IF ~after.ok /\ slots[j].calls < 2
                 THEN [slots EXCEPT ![j].calls = @ + 1]
                 ELSE [slots EXCEPT
                          ![i].stim = stim,
                          ![j].st = "done",
                          ![j].result = after,
                          ![j].outcome = Continue(slots[j].request.method, after),
                          ![j].answers = @ + 1]
           /\ UNCHANGED failed
    /\ UNCHANGED <<scenario, hasArg, phase, exitCode, exitCause, probe, initSent>>

\* HTTP call i is signalled for the first time: the callback of the signal
\* runs, the promise settles and the handler awaiting it runs to its end.
Complete(i, stim) ==
    /\ phase = "serving"
    /\ slots[i].st = "pending"
    /\ slots[i].stim = NoStim
    /\ LET j == Receiver(i)
           heard == [slots EXCEPT ![i].stim = stim,
                                  ![i].destroyed = Destroys(stim)]
           before == heard[j].result
           after == SettleOnce(before, stim)
       IN  /\ slots' =
                 IF Resumes(before, after)
                 THEN [heard EXCEPT
                          ![j].st = "done",
                          ![j].result = after,
                          ![j].outcome = Continue(heard[j].request.method, after),
                          ![j].answers = @ + 1]
                 ELSE [heard EXCEPT ![j].result = after]
           /\ failed' = IF RemoteFailed(after) /\ failed < FailedCap
                        THEN failed + 1
                        ELSE failed
    /\ UNCHANGED <<scenario, hasArg, phase, exitCode, exitCause, probe, initSent>>

Finished == {i \in Slots : slots[i].st = "done"}

\* The signals a call may still get once it was signalled: the timeout of
\* its socket, an error of its request (the `socket hang up` that follows
\* req.destroy()), the end of a response.
LateStimuli(m) ==
    {TimeoutStim,
     ErrorOf("socket hang up"),
     EndOf(200, JsonTexts[Envelope(PopulatedResult(m), JUndef)])}

\* Each kind of signal is given once to a call.  In the racing scenario
\* every kind not yet given may follow; in the others the error that
\* follows the destroy of a timed out request.
CanBeLate(i, stim) ==
    /\ stim.kind # slots[i].stim.kind
    /\ \A n \in 1..Len(slots[i].late) : stim.kind # slots[i].late[n].kind
    /\ \/ scenario = "racing"
       \/ slots[i].stim.kind = "timeout" /\ stim.kind = "error"

\* HTTP call i is signalled again after its promise settled: the callback
\* of the signal runs, its resolve or reject finds the promise settled.
Late(i, stim) ==
    /\ phase = "serving"
    /\ slots[i].st = "done"
    /\ CanBeLate(i, stim)
    /\ LET before == slots[i].result
           after == SettleOnce(before, stim)
       IN  slots' = [slots EXCEPT
                        ![i].late = Append(@, stim),
                        ![i].destroyed = @ \/ Destroys(stim),
                        ![i].result = after,
                        ![i].outcome =
                            IF Resumes(before, after)
                            THEN Continue(slots[i].request.method, after)
                            ELSE @,
                        ![i].answers = IF Resumes(before, after) THEN @ + 1 ELSE @]
    /\ UNCHANGED <<scenario, hasArg, phase, exitCode, exitCause, probe, initSent,
                   failed>>

\* The outcome the handler ended with has been written to the local
\* transport (a result, or the error response of a thrown Error), and the
\* dispatch is over.
Respond(i) ==
    /\ phase = "serving"
    /\ slots[i].st = "done"
    /\ slots' = [slots EXCEPT ![i] = IdleSlot]
    /\ UNCHANGED <<scenario, hasArg, phase, exitCode, exitCause, probe, initSent,
                   failed>>

(***************************************************************************)
(* Process events.                                                         *)
(***************************************************************************)
Running == phase \in {"probing", "serving"}

\* Mutant: a signal handler that exits with the code of a failure.
SignalExitsOne(sig) ==
    /\ Running
    /\ Exit(1, sig)
    /\ UNCHANGED <<scenario, hasArg, probe, initSent, failed>>

\* process.on('SIGINT') and process.on('SIGTERM')
Signal(sig) ==
    /\ Running
    /\ Exit(0, sig)
    /\ UNCHANGED <<scenario, hasArg, probe, initSent, failed>>

\* process.on('uncaughtException') and process.on('unhandledRejection')
Uncaught(event) ==
    /\ Running
    /\ Exit(1, event)
    /\ UNCHANGED <<scenario, hasArg, probe, initSent, failed>>

Next ==
    \/ Main
    \/ \E stim \in ProbeStimuli, conn \in ConnectOutcomes : ProbeSettles(stim, conn)
    \/ \E i \in Slots : \E request \in RequestsOf(i), r \in RandomSamples :
          HandleRequest(i, request, r)
    \/ \E i \in InFlight : \E stim \in Stimuli(slots[i].outgoing.method) :
          Complete(i, stim)
    \/ \E i \in Finished : \E stim \in LateStimuli(slots[i].outgoing.method) :
          Late(i, stim)
    \/ \E i \in Slots : Respond(i)
    \/ \E sig \in {"SIGINT", "SIGTERM"} : Signal(sig)
    \/ \E event \in {"uncaughtException", "unhandledRejection"} : Uncaught(event)

Spec == Init /\ [][Next]_vars
SpecSequential == InitSequential /\ [][Next]_vars
SpecRacing == InitRacing /\ [][Next]_vars


(***************************************************************************)
(* Vocabulary of the properties: the kinds of remote answer, read off the  *)
(* signal itself, and the replies the dispatch table promises.             *)
(***************************************************************************)
Done(i) == slots[i].st = "done"
MethodOf(i) == slots[i].request.method

Is2xx(stim) == stim.kind = "end" /\ stim.status >= 200 /\ stim.status <= 299
IsJson(stim) == stim.kind = "end" /\ stim.raw \in DOMAIN JsonOf
Document(stim) == JsonOf[stim.raw]

TransportFailed(stim) == stim.kind = "error"
TimedOut(stim) == stim.kind = "timeout"
BadStatus(stim) == stim.kind = "end" /\ ~Is2xx(stim)
Unparseable(stim) == Is2xx(stim) /\ ~IsJson(stim)

\* A 2xx response whose document has an error member holding an error object.
CarriesError(stim) ==
    /\ Is2xx(stim)
    /\ IsJson(stim)
    /\ HasKey(Document(stim), "error")
    /\ Get(Document(stim), "error").t = "obj"

RemoteFailure(stim) ==
    \/ TransportFailed(stim)
    \/ TimedOut(stim)
    \/ BadStatus(stim)
    \/ Unparseable(stim)
    \/ CarriesError(stim)

\* The message of the failure's original cause.
CauseMessage(stim) ==
    CASE TransportFailed(stim) -> stim.msg
      [] TimedOut(stim) -> "Request timeout"
      [] BadStatus(stim) -> "HTTP " \o ToString(stim.status) \o ": " \o stim.raw
      [] Unparseable(stim) -> "Invalid JSON response: " \o stim.raw
      [] CarriesError(stim) ->
            IF HasKey(Get(Document(stim), "error"), "message")
            THEN Get(Get(Document(stim), "error"), "message").v
            ELSE ""

FailurePrefix(m) ==
    IF m = "tools/list" THEN "Failed to get tools: " ELSE "Tool execution failed: "

\* The literal fallbacks of the four non-tool methods.
Fallback(m) ==
    CASE m = "resources/list" -> JObj(<< <<"resources", ArrEmpty>> >>)
      [] m = "resources/read" -> JObj(<< <<"contents", ArrEmpty>> >>)
      [] m = "prompts/list" -> JObj(<< <<"prompts", ArrEmpty>> >>)
      [] m = "prompts/get" ->
            JObj(<< <<"description", JStr("")>>, <<"messages", ArrEmpty>> >>)

\* A 2xx response whose document is an object with a result object and no
\* error member.
Successful(stim) ==
    /\ Is2xx(stim)
    /\ IsJson(stim)
    /\ Document(stim).t = "obj"
    /\ ~HasKey(Document(stim), "error")
    /\ Get(Document(stim), "result").t = "obj"

\* The members of the local reply of method m and their defaults.
LocalKeys(m) == IF m = "prompts/get" THEN {"description", "messages"} ELSE {ResultKey(m)}
DefaultOf(k) == IF k = "description" THEN JStr("") ELSE ArrEmpty

(***************************************************************************)
(* C1.  A dispatch of tools/list or tools/call whose call met a remote     *)
(* failure (transport error, timeout, status outside 200-299, unparseable  *)
(* body, 2xx response carrying an error object) ends in a propagated       *)
(* failure, never a reply, whose message is the method's fixed prefix      *)
(* followed by the message of the cause.                                   *)
(***************************************************************************)
C1_ToolFailurePropagates ==
    \A i \in Slots :
        (Done(i) /\ MethodOf(i) \in ToolMethods /\ RemoteFailure(slots[i].stim))
        => /\ slots[i].outcome.kind = "failure"
           /\ slots[i].outcome.message
                = FailurePrefix(MethodOf(i)) \o CauseMessage(slots[i].stim)

C1_Witness ==
    \E i \in Slots :
        /\ Done(i)
        /\ MethodOf(i) = "tools/call"
        /\ CarriesError(slots[i].stim)
        /\ slots[i].outcome = Failure("Tool execution failed: no such tool")

(***************************************************************************)
(* C2.  A dispatch of a non-tool method whose call met a remote failure    *)
(* ends in an ordinary reply that is exactly the method's literal          *)
(* fallback.                                                               *)
(***************************************************************************)
C2_NonToolFailureFallsBack ==
    \A i \in Slots :
        (Done(i) /\ MethodOf(i) \notin ToolMethods /\ RemoteFailure(slots[i].stim))
        => slots[i].outcome = Reply(Fallback(MethodOf(i)))

(***************************************************************************)
(* C3.  A response that carries an error object takes the failure path     *)
(* for every method: a tool method propagates a failure, a non-tool        *)
(* method replies its literal fallback, whether or not the response also   *)
(* carries a result.                                                       *)
(***************************************************************************)
C3_ErrorTakesFailurePath ==
    \A i \in Slots :
        (Done(i) /\ CarriesError(slots[i].stim))
        => IF MethodOf(i) \in ToolMethods
           THEN slots[i].outcome.kind = "failure"
           ELSE slots[i].outcome = Reply(Fallback(MethodOf(i)))

(***************************************************************************)
(* C4.  No dispatch of tools/list or tools/call whose response carried an  *)
(* error object has completed with a reply, also when the response         *)
(* carries a result next to the error.                                     *)
(***************************************************************************)
C4_ToolErrorNeverReplied ==
    \A i \in Slots :
        (Done(i) /\ MethodOf(i) \in ToolMethods /\ CarriesError(slots[i].stim))
        => slots[i].outcome.kind # "reply"

C4_Witness ==
    \E i \in Slots :
        /\ Done(i)
        /\ MethodOf(i) = "tools/list"
        /\ CarriesError(slots[i].stim)
        /\ HasKey(Get(Document(slots[i].stim), "result"), "tools")
        /\ Truthy(Get(Get(Document(slots[i].stim), "result"), "tools"))
        /\ slots[i].outcome.kind = "failure"

(***************************************************************************)
(* C5.  As claimed: after a successful response whose result holds the     *)
(* method's member, the reply holds exactly that value under the local     *)
(* key, whatever the value, falsy ones included.                           *)
(***************************************************************************)
C5_FieldForwardedAlways ==
    \A i \in Slots :
        (Done(i) /\ Successful(slots[i].stim))
        => \A k \in LocalKeys(MethodOf(i)) :
              HasKey(Get(Document(slots[i].stim), "result"), k)
              => /\ slots[i].outcome.kind = "reply"
                 /\ Get(slots[i].outcome.value, k)
                      = Get(Get(Document(slots[i].stim), "result"), k)

(***************************************************************************)
(* C5, amended.  After a successful response whose result holds the        *)
(* method's member, the reply is an ordinary reply with exactly the        *)
(* method's local keys; it holds the member's value unchanged when the     *)
(* value is truthy (every array, the empty one included, and every         *)
(* non-empty string), and the method's default in its place when the       *)
(* value is falsy (null, false, 0, ""): [] for a list, "" for the          *)
(* description, the one synthesized text item for tools/call.              *)
(***************************************************************************)
C5_TruthyFieldForwarded ==
    \A i \in Slots :
        (Done(i) /\ Successful(slots[i].stim))
        => /\ slots[i].outcome.kind = "reply"
           /\ {slots[i].outcome.value.v[n][1] :
                   n \in 1..Len(slots[i].outcome.value.v)} = LocalKeys(MethodOf(i))
           /\ \A k \in LocalKeys(MethodOf(i)) :
                 LET sent == Get(Get(Document(slots[i].stim), "result"), k)
                     got == Get(slots[i].outcome.value, k)
                 IN  HasKey(Get(Document(slots[i].stim), "result"), k)
                     => IF Truthy(sent) THEN got = sent
                        ELSE IF k = "content"
                             THEN got.t = "arr" /\ Len(got.v) = 1
                             ELSE got = DefaultOf(k)

C5_Witness ==
    \E i \in Slots :
        /\ Done(i)
        /\ MethodOf(i) = "tools/list"
        /\ Successful(slots[i].stim)
        /\ Get(Get(Document(slots[i].stim), "result"), "tools") = ArrEmpty
        /\ slots[i].outcome = Reply(JObj(<< <<"tools", ArrEmpty>> >>))


(***************************************************************************)
(* Fairness: every call is signalled in the end, at the latest by the      *)
(* 30 second timeout that makeHttpRequest sets on its request.             *)
(***************************************************************************)
FairSpecSequential ==
    /\ SpecSequential
    /\ WF_vars(\E stim \in ProbeStimuli, conn \in ConnectOutcomes :
                  ProbeSettles(stim, conn))

ExternalExits == {"SIGINT", "SIGTERM", "uncaughtException", "unhandledRejection"}

(***************************************************************************)
(* C6.  Whatever the probe's outcome, the bridge leaves probing; once the  *)
(* local transport is connected it is serving and takes requests, unless   *)
(* a signal or an uncaught failure ends the process; the only exit of      *)
(* start() is an exception of connect, never the probe's failure.          *)
(***************************************************************************)
C6_ProbeIsSoft ==
    /\ [](phase = "exited" /\ exitCause = "fatal" => probe.conn = "throws")
    /\ [](probe.st = "settled" /\ probe.conn = "connected"
            => \/ phase = "serving"
               \/ phase = "exited" /\ exitCause \in ExternalExits)
    /\ [](phase = "serving" /\ slots[1].st = "idle"
            => ENABLED (\E request \in Requests, r \in RandomSamples :
                            HandleRequest(1, request, r)))
    /\ (phase = "probing" ~> phase \in {"serving", "exited"})

C6_Witness ==
    /\ phase = "serving"
    /\ probe.stim = TimeoutStim
    /\ ~probe.result.ok
    /\ \E i \in Slots :
          /\ Done(i)
          /\ slots[i].outcome = Reply(JObj(<< <<"tools", ArrOne>> >>))

(***************************************************************************)
(* C7.  The initialize request is written once, with id 1; no dispatch     *)
(* sends one; from serving the bridge never returns to probing and the     *)
(* count of initialize requests never changes, whatever the dispatches     *)
(* meet.                                                                   *)
(***************************************************************************)
C7_ProbeOnce ==
    /\ [](/\ initSent <= 1
          /\ phase \in {"probing", "serving"}
               => /\ initSent = 1
                  /\ probe.outgoing.method = "initialize"
                  /\ probe.outgoing.id = 1
          /\ \A i \in Slots : slots[i].outgoing.method # "initialize")
    /\ [][phase = "serving"
            => phase' # "probing" /\ initSent' = initSent /\ probe' = probe]_vars

C7_Witness ==
    /\ phase = "serving"
    /\ initSent = 1
    /\ \E i \in Slots : Done(i) /\ slots[i].outcome.kind = "failure"

(***************************************************************************)
(* C8.  While serving, a request the client sends is dispatched at once,   *)
(* however many dispatches are in flight, and every dispatch in flight     *)
(* can be the next to complete.                                            *)
(***************************************************************************)
C8_NoSerialization ==
    phase = "serving"
    => /\ (\E i \in 1..InFlightLimit : slots[i].st = "idle")
            => ENABLED (\E i \in Slots, request \in Requests, r \in RandomSamples :
                            HandleRequest(i, request, r))
       /\ \A i \in InFlight :
             ENABLED (\E stim \in Stimuli(slots[i].outgoing.method) :
                          Complete(i, stim))

C8_Witness == phase = "serving" /\ Cardinality(InFlight) >= 2

(***************************************************************************)
(* C9.  The outcome of a finished dispatch is the one its handler makes    *)
(* of the signal of its own HTTP call; a dispatch in flight has no         *)
(* outcome.  This holds when two calls carry the same id and whatever the  *)
(* order of the responses.                                                 *)
(***************************************************************************)
C9_OwnRoundTrip ==
    \A i \in Slots :
        /\ Done(i)
             => /\ slots[i].stim # NoStim
                /\ slots[i].outcome
                     = Continue(MethodOf(i), Settle(slots[i].stim))
        /\ slots[i].st = "pending" => slots[i].outcome = NoOutcome

C9_Witness ==
    \E i, j \in Slots :
        /\ i # j
        /\ Done(i) /\ Done(j)
        /\ slots[i].outgoing.id = slots[j].outgoing.id
        /\ MethodOf(i) = MethodOf(j)
        /\ slots[i].stim # slots[j].stim
        /\ slots[i].outcome # slots[j].outcome

(***************************************************************************)
(* C10.  As claimed: the id of every outgoing request is positive and      *)
(* differs from the id of the incoming request that caused it.             *)
(***************************************************************************)
C10_IdPositiveAndFresh ==
    \A i \in Slots :
        slots[i].st # "idle"
        => /\ slots[i].outgoing.id >= 1
           /\ slots[i].outgoing.id # slots[i].request.id

(***************************************************************************)
(* C10, amended.  The id of every outgoing request is an integer from 0    *)
(* to 999999, 0 included.                                                  *)
(***************************************************************************)
C10_IdInRange ==
    \A i \in Slots :
        slots[i].st # "idle"
        => slots[i].outgoing.id \in 0..999999

C10_Witness ==
    \E i \in Slots :
        /\ slots[i].st # "idle"
        /\ slots[i].outgoing.id = 999999

(***************************************************************************)
(* C11.  As claimed: any two distinct outgoing requests, the initialize    *)
(* probe included, carry different ids.                                    *)
(***************************************************************************)
C11_IdsAllDistinct ==
    \A i \in Slots :
        slots[i].st # "idle"
        => /\ probe.st # "none" => slots[i].outgoing.id # probe.outgoing.id
           /\ \A j \in Slots \ {i} :
                 slots[j].st # "idle" => slots[j].outgoing.id # slots[i].outgoing.id

(***************************************************************************)
(* C11, amended.  The probe carries id 1, and the id of a dispatch is      *)
(* drawn without regard to the ids already issued: whenever a request can  *)
(* be dispatched it can be dispatched with every id the generator          *)
(* yields, the id of the probe and the ids of the calls in flight          *)
(* included.                                                               *)
(***************************************************************************)
C11_IdsDrawnIndependently ==
    /\ probe.st # "none" => probe.outgoing.id = ProbeId
    /\ \A i \in Slots :
          CanDispatch(i)
          => \A r \in RandomSamples :
                ENABLED (\E request \in Requests :
                            /\ HandleRequest(i, request, r)
                            /\ slots'[i].outgoing.id = generateId(r))

C11_Witness ==
    /\ probe.outgoing.id = 1
    /\ \E i, j \in Slots :
          /\ i # j
          /\ slots[i].st = "pending" /\ slots[j].st = "pending"
          /\ slots[i].outgoing.id = 1
          /\ slots[j].outgoing.id = 1

(***************************************************************************)
(* C12.  A call whose response completed resolves, with the decoded body,  *)
(* only when the status is within 200-299 and the body parses.  Any other  *)
(* status rejects with a message that carries the status and the raw       *)
(* body, also when that body is a well-formed result; a 2xx status with a  *)
(* body that does not parse rejects with a message that carries the raw    *)
(* body.                                                                   *)
(***************************************************************************)
C12_DecodedOnly2xxJson ==
    \A i \in Slots :
        (Done(i) /\ slots[i].stim.kind = "end")
        => /\ slots[i].result.ok <=> (Is2xx(slots[i].stim) /\ IsJson(slots[i].stim))
           /\ slots[i].result.ok => slots[i].result.value = Document(slots[i].stim)
           /\ BadStatus(slots[i].stim)
                => slots[i].result
                     = Rejected("HTTP " \o ToString(slots[i].stim.status) \o ": "
                                \o slots[i].stim.raw)
           /\ Unparseable(slots[i].stim)
                => slots[i].result
                     = Rejected("Invalid JSON response: " \o slots[i].stim.raw)

C12_Witness ==
    \E i \in Slots :
        /\ Done(i)
        /\ slots[i].stim.status = 300
        /\ IsJson(slots[i].stim)
        /\ HasKey(Document(slots[i].stim), "result")
        /\ ~slots[i].result.ok
        /\ slots[i].result.message
             = "HTTP 300: {\"result\":{\"tools\":[{\"name\":\"echo\"}]}}"

\* A 2xx response whose body is JSON but no JSON-RPC response: not an
\* object, or an object with neither a result nor an error member.
NotAnEnvelope(stim) ==
    /\ Is2xx(stim)
    /\ IsJson(stim)
    /\ \/ Document(stim).t # "obj"
       \/ ~HasKey(Document(stim), "result") /\ ~HasKey(Document(stim), "error")

(***************************************************************************)
(* C13.  As claimed: a call answered 2xx with a JSON body that is no       *)
(* JSON-RPC response (not an object, or an object with neither result nor  *)
(* error) is rejected, and a tool method never makes a reply of it.        *)
(***************************************************************************)
C13_MalformedEnvelopeRejected ==
    \A i \in Slots :
        (Done(i) /\ NotAnEnvelope(slots[i].stim))
        => /\ ~slots[i].result.ok
           /\ MethodOf(i) \in ToolMethods => slots[i].outcome.kind # "reply"

(***************************************************************************)
(* Fairness of the timer: req.setTimeout(30000) signals the timeout of a   *)
(* call that stays without any other signal, the probe's call included.    *)
(***************************************************************************)
FairSpecRacing ==
    /\ SpecRacing
    /\ WF_vars(\E conn \in ConnectOutcomes : ProbeSettles(TimeoutStim, conn))
    /\ \A i \in Slots : WF_vars(Complete(i, TimeoutStim))

(***************************************************************************)
(* C14.  Every call settles, with no more than the timer being fair: a     *)
(* dispatch in flight leads to its outcome and the pending probe to its    *)
(* settlement, unless the process exits first.  A call whose first signal  *)
(* is the timeout has its request destroyed and is rejected with the       *)
(* timeout failure, and a call in flight has heard no signal.              *)
(***************************************************************************)
C14_EveryCallSettles ==
    /\ [](\A i \in Slots :
            /\ slots[i].st = "pending"
                 => slots[i].stim = NoStim /\ slots[i].result = Unsettled
            /\ (Done(i) /\ slots[i].stim.kind = "timeout")
                 => /\ slots[i].destroyed
                    /\ slots[i].result = Rejected("Request timeout"))
    /\ [](probe.st = "settled" /\ probe.stim.kind = "timeout"
            => probe.result = Rejected("Request timeout"))
    /\ \A i \in Slots :
          slots[i].st = "pending"
          ~> \/ Done(i) /\ slots[i].outcome # NoOutcome
             \/ phase = "exited"
    /\ probe.st = "pending" ~> (probe.st = "settled" \/ phase = "exited")

C14_Witness ==
    /\ probe.stim = TimeoutStim
    /\ \E i \in Slots :
          /\ Done(i)
          /\ slots[i].stim = TimeoutStim
          /\ slots[i].destroyed
          /\ slots[i].outcome = Failure("Failed to get tools: Request timeout")

(***************************************************************************)
(* C15.  A finished dispatch has exactly one outcome: a reply holding the  *)
(* method's local keys (shaped, or the fallback of a non-tool method) or,  *)
(* for a tool method only, a failure; never a reply together with a        *)
(* failure.  A dispatch in flight has none, and the outcome of a finished  *)
(* dispatch is not replaced nor followed by another, whatever signal its   *)
(* call gets afterwards.                                                   *)
(***************************************************************************)
C15_ExactlyOneOutcome ==
    /\ [](\A i \in Slots :
            /\ slots[i].st \in {"idle", "pending"}
                 => slots[i].answers = 0 /\ slots[i].outcome = NoOutcome
            /\ Done(i)
                 => /\ slots[i].answers = 1
                    /\ slots[i].outcome.kind \in {"reply", "failure"}
                    /\ slots[i].outcome.kind = "reply"
                         => /\ slots[i].outcome.message = ""
                            /\ slots[i].outcome.value.t = "obj"
                            /\ {slots[i].outcome.value.v[n][1] :
                                    n \in 1..Len(slots[i].outcome.value.v)}
                                 = LocalKeys(MethodOf(i))
                    /\ slots[i].outcome.kind = "failure"
                         => /\ slots[i].outcome.value = JUndef
                            /\ MethodOf(i) \in ToolMethods
                    /\ (MethodOf(i) \notin ToolMethods /\ ~slots[i].result.ok)
                         => slots[i].outcome = Reply(Fallback(MethodOf(i))))
    /\ [][\A i \in Slots :
            (Done(i) /\ slots'[i].st = "done")
            => /\ slots'[i].outcome = slots[i].outcome
               /\ slots'[i].answers = slots[i].answers]_vars

C15_Witness ==
    \E i \in Slots :
        /\ Done(i)
        /\ Len(slots[i].late) >= 1
        /\ slots[i].answers = 1
        /\ slots[i].outcome = Failure("Tool execution failed: Request timeout")

(***************************************************************************)
(* C16.  Remote failures leave the session as it was.  The step that ends  *)
(* a dispatch, in a failure or not, leaves the bridge serving and the      *)
(* process running; once its outcome is written nothing of the dispatch    *)
(* is left; the process exits only by the usage exit, an exception of      *)
(* connect, a signal or an uncaught failure.  However many dispatches      *)
(* have failed, the next request is dispatched, with every method and      *)
(* every id, and its outcome is what its handler makes of its own call.    *)
(***************************************************************************)
C16_FailuresLeaveSessionServing ==
    /\ [][\A i \in Slots :
            /\ (slots[i].st = "pending" /\ slots'[i].st = "done")
                 => phase' = "serving" /\ exitCode' = {}
            /\ (Done(i) /\ slots'[i].st = "idle" /\ phase' = "serving")
                 => slots'[i] = IdleSlot]_vars
    /\ [](exitCause \in {"none", "usage", "fatal"} \cup ExternalExits)
    /\ [](phase = "serving" /\ slots[1].st = "idle"
            => \A request \in Requests, r \in RandomSamples :
                  ENABLED HandleRequest(1, request, r))
    /\ [](\A i \in Slots :
             Done(i) => slots[i].outcome
                          = Continue(MethodOf(i), Settle(slots[i].stim)))

C16_Witness ==
    /\ phase = "serving"
    /\ failed = 2
    /\ \E i \in Slots :
          /\ Done(i)
          /\ Successful(slots[i].stim)
          /\ slots[i].outcome = Reply(JObj(<< <<"contents", ArrOne>> >>))

(***************************************************************************)
(* C17.  A running process has no exit code; an ended one has exactly      *)
(* one: 0 when it ended on SIGINT or SIGTERM, and 1 when the argument was  *)
(* missing, when start() threw, or on an uncaught exception or unhandled   *)
(* rejection.  The process ends on the usage exit exactly when the         *)
(* argument is missing, and then no request was ever sent.                 *)
(***************************************************************************)
C17_ExitCodes ==
    /\ phase # "exited" => exitCode = {} /\ exitCause = "none"
    /\ phase = "exited"
         => /\ exitCause \in {"SIGINT", "SIGTERM"} => exitCode = {0}
            /\ exitCause \in {"usage", "fatal", "uncaughtException",
                              "unhandledRejection"} => exitCode = {1}
            /\ exitCause \in {"usage", "fatal"} \cup ExternalExits
            /\ exitCause = "usage" <=> ~hasArg
    /\ ~hasArg
         => /\ phase \in {"main", "exited"}
            /\ initSent = 0
            /\ probe = NoProbe
            /\ \A i \in Slots : slots[i] = IdleSlot

C17_Witness ==
    /\ phase = "exited"
    /\ ~hasArg
    /\ exitCause = "usage"
    /\ exitCode = {1}
    /\ initSent = 0

(***************************************************************************)
(* C18.  While the bridge is probing no dispatch exists and none can       *)
(* start; every dispatch that exists was made after the probe settled and  *)
(* the local transport was connected.                                      *)
(***************************************************************************)
C18_NoDispatchWhileProbing ==
    /\ phase \in {"main", "probing"}
         => /\ \A i \in Slots : slots[i] = IdleSlot
            /\ ~ENABLED (\E i \in Slots, request \in Requests, r \in RandomSamples :
                            HandleRequest(i, request, r))
    /\ phase = "probing" => probe.st = "pending" /\ probe.conn = "none"
    /\ \A i \in Slots :
          slots[i].st # "idle"
          => /\ probe.st = "settled"
             /\ probe.stim # NoStim
             /\ probe.conn = "connected"

C18_Witness ==
    /\ probe.st = "settled"
    /\ probe.stim = ErrorOf("connect ECONNREFUSED")
    /\ \E i \in Slots : slots[i].st = "pending" /\ slots[i].calls = 1

(***************************************************************************)
(* C19.  A dispatch makes one HTTP call: it has made exactly one from the  *)
(* moment it is in flight, and as long as it lasts neither the count nor   *)
(* the request of the call changes and a finished dispatch is never in     *)
(* flight again, whether the call met a timeout, a transport error, a bad  *)
(* status, an unparseable body or a remote error.                          *)
(***************************************************************************)
C19_OneCallPerDispatch ==
    /\ [](\A i \in Slots :
            /\ slots[i].st = "idle" => slots[i].calls = 0
            /\ slots[i].st # "idle" => slots[i].calls = 1)
    /\ [][\A i \in Slots :
            /\ (slots[i].st # "idle" /\ slots'[i].st # "idle")
                 => /\ slots'[i].calls = slots[i].calls
                    /\ slots'[i].outgoing = slots[i].outgoing
                    /\ slots'[i].request = slots[i].request
            /\ Done(i) => slots'[i].st \in {"done", "idle"}]_vars

C19_Witness ==
    \E i \in Slots :
        /\ Done(i)
        /\ Unparseable(slots[i].stim)
        /\ slots[i].calls = 1
        /\ slots[i].outcome = Reply(JObj(<< <<"prompts", ArrEmpty>> >>))

(***************************************************************************)
(* C20.  The first signal of a call wins.  The promise of a finished       *)
(* dispatch holds the settlement of the first signal its call got and the  *)
(* outcome is what the handler makes of that settlement; a timeout, a      *)
(* transport error or a completed response that comes later, in any        *)
(* order, changes neither and makes no other outcome.                      *)
(***************************************************************************)
C20_FirstSignalWins ==
    /\ [](\A i \in Slots :
            Done(i)
            => /\ slots[i].stim # NoStim
               /\ slots[i].result = Settle(slots[i].stim)
               /\ slots[i].outcome = Continue(MethodOf(i), slots[i].result)
               /\ slots[i].answers = 1)
    /\ [][\A i \in Slots :
            (Done(i) /\ slots'[i].st = "done")
            => /\ slots'[i].stim = slots[i].stim
               /\ slots'[i].result = slots[i].result
               /\ slots'[i].outcome = slots[i].outcome
               /\ slots'[i].answers = slots[i].answers]_vars

C20_Witness ==
    \E i \in Slots :
        /\ Done(i)
        /\ slots[i].stim = ErrorOf("connect ECONNREFUSED")
        /\ Len(slots[i].late) = 2
        /\ slots[i].late[1].kind = "end"
        /\ slots[i].late[2].kind = "timeout"
        /\ slots[i].result = Rejected("connect ECONNREFUSED")
        /\ slots[i].outcome = Reply(JObj(<< <<"resources", ArrEmpty>> >>))

\* The methods whose handler forwards the params of its request.
ForwardingMethods == {"tools/call", "resources/read", "prompts/get"}

\* The params the outgoing request of an incoming request is to carry.
ExpectedParams(request) ==
    IF request.method \in ForwardingMethods THEN request.params ELSE JObj(<<>>)

(***************************************************************************)
(* C21.  The outgoing request of a dispatch carries the method of the      *)
(* incoming request; the incoming params unchanged for tools/call,         *)
(* resources/read and prompts/get, and the empty object for tools/list,    *)
(* resources/list and prompts/list whatever the incoming params; and       *)
(* nothing else of the incoming request: it is made of method, params and  *)
(* the drawn id alone, so that every request can go out with every id      *)
(* the generator yields, whatever its own id.                              *)
(***************************************************************************)
C21_ParamsForwarding ==
    /\ \A i \in Slots :
          slots[i].st # "idle"
          => /\ DOMAIN slots[i].outgoing = {"method", "params", "id"}
             /\ slots[i].outgoing.method = slots[i].request.method
             /\ slots[i].outgoing.params = ExpectedParams(slots[i].request)
             /\ \E r \in RandomSamples : slots[i].outgoing.id = generateId(r)
    /\ CanDispatch(1)
         => \A request \in Requests, r \in RandomSamples :
               ENABLED (/\ HandleRequest(1, request, r)
                        /\ slots'[1].outgoing
                             = [method |-> request.method,
                                params |-> ExpectedParams(request),
                                id |-> generateId(r)])

C21_Witness ==
    \E i \in Slots :
        /\ slots[i].st = "pending"
        /\ slots[i].request.method = "prompts/list"
        /\ slots[i].request.params = ParamsB
        /\ slots[i].request.id = 1
        /\ slots[i].outgoing = [method |-> "prompts/list", params |-> JObj(<<>>),
                                id |-> 0]

\* A 2xx response of tools/call whose document is an object without an
\* error member and whose result, if there is one, has no content member.
SuccessWithoutContent(i) ==
    /\ MethodOf(i) = "tools/call"
    /\ Is2xx(slots[i].stim)
    /\ IsJson(slots[i].stim)
    /\ Document(slots[i].stim).t = "obj"
    /\ ~HasKey(Document(slots[i].stim), "error")
    /\ ~HasKey(Get(Document(slots[i].stim), "result"), "content")

(***************************************************************************)
(* C22.  As claimed: a tools/call dispatch whose successful response has   *)
(* a result without content replies a content of exactly one text item     *)
(* whose text is the JSON text of the whole result, and the text {} when   *)
(* the response has no result member at all.                               *)
(***************************************************************************)
C22_SynthesizedTextItem ==
    \A i \in Slots :
        (Done(i) /\ SuccessWithoutContent(i))
        => slots[i].outcome
             = Reply(JObj(<< <<"content",
                   JArr(<< TextItem(
                       IF HasKey(Document(slots[i].stim), "result")
                       THEN Stringify(Get(Document(slots[i].stim), "result"))
                       ELSE "{}") >>)>> >>))

(***************************************************************************)
(* C23.  The outcome of a dispatch is a function of its method and of the  *)
(* settlement of its call: two finished dispatches of the same method      *)
(* whose calls settled alike have the same outcome, whatever their         *)
(* incoming ids and params, their generated ids, the order they arrived    *)
(* and finished in and the signals that came later.                        *)
(***************************************************************************)
C23_OutcomeIsFunctionOfRemote ==
    \A i, j \in Slots :
        (/\ Done(i) /\ Done(j)
         /\ MethodOf(i) = MethodOf(j)
         /\ slots[i].result = slots[j].result)
        => slots[i].outcome = slots[j].outcome

C23_Witness ==
    \E i, j \in Slots :
        /\ Done(i) /\ Done(j)
        /\ MethodOf(i) = "tools/call" /\ MethodOf(j) = "tools/call"
        /\ slots[i].request.id # slots[j].request.id
        /\ slots[i].request.params # slots[j].request.params
        /\ slots[i].outgoing.id # slots[j].outgoing.id
        /\ slots[i].stim = slots[j].stim
        /\ Successful(slots[i].stim)
        /\ slots[i].outcome = Reply(JObj(<< <<"content", ArrOne>> >>))
        /\ slots[j].outcome = slots[i].outcome

=============================================================================
